---------------------------- MODULE Spec2Model ----------------------------
(***************************************************************************)
(* Model of the request pipeline of server.js (consturctServer): the       *)
(* response cache placed in front of the routes, the route handler that    *)
(* assembles the parameter bag, awaits the module and maps its outcome to  *)
(* an HTTP response; the discovery of the modules (getModulesDefinitions),  *)
(* the first middleware (CORS headers, preflight), the routing of a        *)
(* request to a binding and the wrapper of the outbound call.              *)
(*                                                                         *)
(* Strings that the code only passes through are TLA+ strings; strings the *)
(* code takes apart (cookie strings, file names, routes, paths, addresses) *)
(* are sequences of characters.                                            *)
(***************************************************************************)
EXTENDS Integers, Sequences, FiniteSets, TLC

VARIABLES
  now,      \* wall clock, in minutes
  cache,    \* the apicache memory store: cache key -> entry
  reqs,     \* one record per inbound request
  nreq,     \* number of requests that have arrived so far
  pa,       \* the parameter assembly of one request: its inputs, the
            \* parsed cookies and the bag handed to the module
  disc,     \* the discovery of the modules of a directory
  routes,   \* the bindings registered with app.use, in registration order
  ob        \* one call of the outbound wrapper: the handler's arguments,
            \* req.ip and the arguments handed to request

vars == <<now, cache, reqs, nreq, pa, disc, routes, ob>>

(***************************************************************************)
(* Bounds                                                                  *)
(***************************************************************************)
MaxReqs == 3
MaxTime == 2
DispatchReqs == 1
RouteReqs == 2
MaxBindings == 2
PreflightReqs == 2
CredReqs == 2
MaxArgs == 5
MaxHeaderLen == 6
MaxFiles == 3

\* as many request records as the largest number of requests of a specification
ReqIds == 1..MaxReqs

(***************************************************************************)
(* Values                                                                  *)
(***************************************************************************)
\* a time to live of one minute
TTL_OneMinute == 1

\* entries that expire as they are stored
TTL_Zero == 0

\* cache('2 minutes', ...): the time to live of an entry, in minutes
TTL == 2

Protocols == {"http", "https"}

\* a status that is not there (undefined)
NoStatus == -1
Statuses == {200, 500}

\* body.code: a number, a string of digits, or no such field;
\* n is the number, or the number the digits of the string denote
NoCode  == [t |-> "none", n |-> 0]
Num(n)  == [t |-> "num", n |-> n]
Str(n)  == [t |-> "str", n |-> n]

\* a field that is not there
NoField == "<undefined>"
JsNull  == "<null>"

\* bodies: undefined, a falsy value ('' or null), or an object with the
\* fields code, msg and data
AbsentBody == [kind |-> "absent", code |-> NoCode, msg |-> NoField, data |-> NoField]
FalsyBody  == [kind |-> "falsy",  code |-> NoCode, msg |-> NoField, data |-> NoField]
Obj(c, m, d) == [kind |-> "obj", code |-> c, msg |-> m, data |-> d]

\* an envelope without the code field
NotFoundBody_NoCode == Obj(NoCode, "Not Found", JsNull)

\* res.status(404).send({ code: 404, data: null, msg: 'Not Found' })
NotFoundBody == Obj(Num(404), "Not Found", JsNull)

\* moduleResponse.body.msg = '需要登录'
LoginMsg == "login required"

\* the cookie field of a module response: undefined, a string, or an array
NoCookie      == [t |-> "absent", v |-> <<>>]
StrCookie(s)  == [t |-> "str", v |-> <<s>>]
ArrCookie(a)  == [t |-> "arr", v |-> a]

SameSiteSuffix == "; SameSite=None; Secure"

\* what the module call settles with: ch is the channel (resolve / reject),
\* isNull says that the value is null or undefined
Settled(ch, st, b, c) ==
  [ch |-> ch, isNull |-> FALSE, status |-> st, body |-> b, cookie |-> c]
SettledNull(ch) ==
  [ch |-> ch, isNull |-> TRUE, status |-> NoStatus, body |-> AbsentBody, cookie |-> NoCookie]
NoOutcome == [ch |-> "none", isNull |-> TRUE, status |-> NoStatus, body |-> AbsentBody, cookie |-> NoCookie]

\* a response on the wire; written = FALSE when none was sent
Response(st, b, sc) == [written |-> TRUE, status |-> st, body |-> b, setCookie |-> sc]
NoResp == [written |-> FALSE, status |-> 0, body |-> AbsentBody, setCookie |-> <<>>]

\* the page express answers with when no middleware takes the request
CannotBody == [kind |-> "html", code |-> NoCode, msg |-> NoField, data |-> NoField]


(***************************************************************************)
(* The route handler's mapping of a module outcome to a response           *)
(***************************************************************************)
\* the result of running the route handler's continuation: either a response
\* was sent, or an exception left the async handler and nothing was sent
Wrote(resp) == [threw |-> FALSE, resp |-> resp]
Escaped     == [threw |-> TRUE, resp |-> NoResp]

\* an Error thrown inside the try block: an object without status, body
\* or cookie
ErrorValue == Settled("reject", NoStatus, AbsentBody, NoCookie)

\* a strict comparison with the string: body.code === '301'
LooseEq301_Strict(c) == c.t = "str" /\ c.n = 301

\* moduleResponse.body.code == '301' (loose equality)
LooseEq301(c) == c.t \in {"num", "str"} /\ c.n = 301

\* the suffix added whatever the protocol is
SuccessSetCookie_AlwaysSuffix(c, proto) ==
  IF c.t = "arr" /\ Len(c.v) > 0
  THEN [i \in 1..Len(c.v) |-> c.v[i] \o SameSiteSuffix]
  ELSE <<>>

\* Array.isArray(cookies) && cookies.length > 0, then res.append of the
\* cookies, each with the suffix when req.protocol === 'https'
SuccessSetCookie(c, proto) ==
  IF c.t = "arr" /\ Len(c.v) > 0
  THEN IF proto = "https"
       THEN [i \in 1..Len(c.v) |-> c.v[i] \o SameSiteSuffix]
       ELSE c.v
  ELSE <<>>

\* res.append('Set-Cookie', val) on a response whose Set-Cookie header is
\* prev: an array is taken as it is, anything else goes through String(val)
ResAppend(prev, c) ==
  prev \o (IF c.t = "absent" THEN <<"undefined">> ELSE c.v)

\* a catch block without the early return for a missing body
CatchBlock_NoReturn(e, sc) ==
  IF e.isNull
  THEN Escaped
  ELSE LET b == IF e.body.kind = "obj" /\ LooseEq301(e.body.code)
                THEN [e.body EXCEPT !.msg = LoginMsg]
                ELSE e.body
           h == ResAppend(sc, e.cookie)
       IN  IF e.status = NoStatus
           THEN Escaped
           ELSE Wrote(Response(e.status, b, h))

\* the catch block, entered with the caught value e while the response
\* already carries the Set-Cookie header sc
CatchBlock(e, sc) ==
  IF e.isNull
  THEN Escaped  \* reading .status of null / undefined throws
  ELSE IF e.body.kind # "obj"
  THEN Wrote(Response(404, NotFoundBody, sc))
  ELSE LET b == IF LooseEq301(e.body.code)
                THEN [e.body EXCEPT !.msg = LoginMsg]
                ELSE e.body
           h == ResAppend(sc, e.cookie)
       IN  IF e.status = NoStatus
           THEN Escaped  \* res.status(undefined).send(...) throws
           ELSE Wrote(Response(e.status, b, h))

\* the try block after the await, entered with the resolved value o
TryBlock(o, proto) ==
  IF o.isNull
  THEN CatchBlock(ErrorValue, <<>>)  \* moduleResponse.cookie throws
  ELSE LET sc == SuccessSetCookie(o.cookie, proto)
       IN  IF o.status = NoStatus
           THEN CatchBlock(ErrorValue, sc)  \* res.status(undefined).send(...) throws
           ELSE Wrote(Response(o.status, o.body, sc))

RouteHandlerResult(o, proto) ==
  IF o.ch = "resolve" THEN TryBlock(o, proto) ELSE CatchBlock(o, <<>>)

(***************************************************************************)
(* The response cache                                                      *)
(***************************************************************************)
Methods == {"GET", "POST", "OPTIONS"}
Urls    == {"/song/url?id=1", "/song/url?id=2", "/u", "/u/d", "/ux", "/a.b", "/"}

\* the method and URL of the requests: identical requests
Idents  == {<<"GET", "/song/url?id=1">>}

\* the request identity the cache is keyed by
CacheKey(method, url) == <<method, url>>
CacheKeys == {CacheKey(m, u) : m \in Methods, u \in Urls}

NoEntry == [status |-> 0, body |-> AbsentBody, setCookie |-> <<>>, expiry |-> 0]
Entry(resp, t) ==
  [status |-> resp.status, body |-> resp.body, setCookie |-> resp.setCookie,
   expiry |-> t + TTL]

\* a toggle that lets every response be stored
CacheToggle_Always(resp) == TRUE

\* a toggle that tests for a status other than 200
CacheToggle_Not200(resp) == resp.status # 200

\* the toggle handed to the cache: (_, res) => res.statusCode === 200
CacheToggle(resp) == resp.status = 200

\* a stored entry whose timer has not fired
CacheHit(k) == cache[k] # NoEntry /\ cache[k].expiry > now

\* the store after the response resp for key k has ended at time t
CacheAfterEnd(k, resp, t) ==
  IF resp.written /\ CacheToggle(resp)
  THEN [cache EXCEPT ![k] = Entry(resp, t)]
  ELSE cache

\* the store after the expiry timers due at time t have fired
CacheAfterExpiry(t) ==
  [k \in CacheKeys |-> IF cache[k] # NoEntry /\ cache[k].expiry <= t
                       THEN NoEntry ELSE cache[k]]

(***************************************************************************)
(* Cookie strings and the parameter bag                                    *)
(*                                                                         *)
(* A string is a sequence of characters; a percent escape ("%3D", "%20",   *)
(* "%3B") is one element of the sequence.                                  *)
(***************************************************************************)
\* \s of the split pattern and the whitespace String.prototype.trim removes
IsSpace(c) == c = " "

\* decode(): every percent escape becomes the character it stands for
DecodeChar(c) ==
  IF c = "%3D" THEN "="
  ELSE IF c = "%20" THEN " "
  ELSE IF c = "%3B" THEN ";"
  ELSE c
Decode(s) == [i \in 1..Len(s) |-> DecodeChar(s[i])]

\* String.prototype.trim
RECURSIVE TrimLeft(_)
TrimLeft(s) ==
  IF s # <<>> /\ IsSpace(Head(s)) THEN TrimLeft(Tail(s)) ELSE s
RECURSIVE TrimRight(_)
TrimRight(s) ==
  IF s # <<>> /\ IsSpace(s[Len(s)]) THEN TrimRight(SubSeq(s, 1, Len(s) - 1)) ELSE s
Trim(s) == TrimRight(TrimLeft(s))

\* the number of whitespace characters of s from position i on
RECURSIVE SpaceRun(_, _)
SpaceRun(s, i) ==
  IF i > Len(s) \/ ~IsSpace(s[i]) THEN 0 ELSE 1 + SpaceRun(s, i + 1)

\* the length of the match of /;\s+|(?<!\s)\s+$/ at position i, 0 if none
DelimAt(s, i) ==
  IF s[i] = ";"
  THEN IF SpaceRun(s, i + 1) > 0 THEN 1 + SpaceRun(s, i + 1) ELSE 0
  ELSE IF /\ IsSpace(s[i])
          /\ (i = 1 \/ ~IsSpace(s[i - 1]))
          /\ i + SpaceRun(s, i) - 1 = Len(s)
       THEN SpaceRun(s, i)
       ELSE 0

\* String.prototype.split with that pattern: the fragment begun at p, the
\* search for the next delimiter being at q
RECURSIVE SplitFrom(_, _, _)
SplitFrom(s, p, q) ==
  IF q > Len(s)
  THEN <<SubSeq(s, p, Len(s))>>
  ELSE LET d == DelimAt(s, q)
       IN  IF d > 0
           THEN <<SubSeq(s, p, q - 1)>> \o SplitFrom(s, q + d, q + d)
           ELSE SplitFrom(s, p, q + 1)
Split(s) == SplitFrom(s, 1, 1)

\* pair.indexOf('='), counted from 1; 0 when there is none
RECURSIVE IndexFrom(_, _, _)
IndexFrom(s, c, i) ==
  IF i > Len(s) THEN 0 ELSE IF s[i] = c THEN i ELSE IndexFrom(s, c, i + 1)
\* lastIndexOf in place of indexOf
IndexOf_Last(s, c) ==
  IF \E i \in 1..Len(s) : s[i] = c
  THEN CHOOSE i \in 1..Len(s) : s[i] = c /\ \A j \in (i + 1)..Len(s) : s[j] # c
  ELSE 0

IndexOf(s, c) == IndexFrom(s, c, 1)

EmptyMap == [k \in {} |-> <<>>]

\* the forEach over the fragments: a fragment without '=', with '=' first or
\* with '=' last is skipped, any other sets cookies[key] = value
RECURSIVE StorePairs(_, _)
StorePairs(pairs, cookies) ==
  IF pairs = <<>>
  THEN cookies
  ELSE LET pair  == Head(pairs)
           crack == IndexOf(pair, "=")
       IN  IF crack < 2 \/ crack = Len(pair)
           THEN StorePairs(Tail(pairs), cookies)
           ELSE LET key == Trim(Decode(SubSeq(pair, 1, crack - 1)))
                    val == Trim(Decode(SubSeq(pair, crack + 1, Len(pair))))
                IN  StorePairs(Tail(pairs),
                      [k \in DOMAIN cookies \cup {key} |->
                         IF k = key THEN val ELSE cookies[k]])

\* the cookie middleware: req.cookies from req.headers.cookie || ''
ParseCookieHeader(raw) == StorePairs(Split(raw), EmptyMap)

\* cookieToJson of util/index: the same rule applied to a string value
cookieToJson(str) == ParseCookieHeader(str)

\* the values a parameter can have: a string, a cookie map, or a value of
\* another type (an array, an object, an uploaded file) named by s
StrVal(str)    == [t |-> "str", s |-> str, m |-> EmptyMap]
MapVal(m)      == [t |-> "map", s |-> <<>>, m |-> m]
OtherVal(t, n) == [t |-> t, s |-> <<n>>, m |-> EmptyMap]

\* an assignment in which the earlier source wins
AssignOne_KeepTarget(target, source) ==
  [k \in DOMAIN target \cup DOMAIN source |->
     IF k \in DOMAIN target THEN target[k] ELSE source[k]]

\* Object.assign(target, source) for one source
AssignOne(target, source) ==
  [k \in DOMAIN target \cup DOMAIN source |->
     IF k \in DOMAIN source THEN source[k] ELSE target[k]]

\* the forEach over [req.query, req.body]: a cookie that is a string is
\* replaced by the map parsed from it
NormalizeCookie(item) ==
  IF "cookie" \in DOMAIN item /\ item["cookie"].t = "str"
  THEN [item EXCEPT !["cookie"] = MapVal(cookieToJson(Decode(item["cookie"].s)))]
  ELSE item

\* Object.assign({}, { cookie: req.cookies }, req.query, req.body, req.files)
AssignAll(cookies, query, body, files) ==
  AssignOne(AssignOne(AssignOne([k \in {"cookie"} |-> MapVal(cookies)], query),
                      body), files)

(***************************************************************************)
(* Module registry                                                         *)
(*                                                                         *)
(* File names and routes are sequences of characters.                      *)
(***************************************************************************)
\* the override table of consturctServer
special ==
  (<<"d", "a", "i", "l", "y", "_", "s", "i", "g", "n", "i", "n", ".", "j", "s">> :> <<"/", "d", "a", "i", "l", "y", "_", "s", "i", "g", "n", "i", "n">>)
    @@ (<<"f", "m", "_", "t", "r", "a", "s", "h", ".", "j", "s">> :> <<"/", "f", "m", "_", "t", "r", "a", "s", "h">>)
    @@ (<<"p", "e", "r", "s", "o", "n", "a", "l", "_", "f", "m", ".", "j", "s">> :> <<"/", "p", "e", "r", "s", "o", "n", "a", "l", "_", "f", "m">>)

\* a specificRoute that is not given
NoSpecificRoute == [f \in {} |-> <<>>]

\* file.endsWith('.js')
EndsWithJs(file) ==
  Len(file) >= 3 /\ SubSeq(file, Len(file) - 2, Len(file)) = <<".", "j", "s">>

\* fileName.replace(/\.js$/i, '')
StripJs(fileName) ==
  IF /\ Len(fileName) >= 3
     /\ fileName[Len(fileName) - 2] = "."
     /\ fileName[Len(fileName) - 1] \in {"j", "J"}
     /\ fileName[Len(fileName)] \in {"s", "S"}
  THEN SubSeq(fileName, 1, Len(fileName) - 3)
  ELSE fileName

\* .replace(/_/g, '/')
ReplaceUnderscores(str) ==
  [i \in 1..Len(str) |-> IF str[i] = "_" THEN "/" ELSE str[i]]

\* an override table that is consulted for no file
parseRoute_NoOverride(specificRoute, fileName) ==
  <<"/">> \o ReplaceUnderscores(StripJs(fileName))

parseRoute(specificRoute, fileName) ==
  IF fileName \in DOMAIN specificRoute
  THEN specificRoute[fileName]
  ELSE <<"/">> \o ReplaceUnderscores(StripJs(fileName))

\* file.split('.').shift()
Identifier(file) ==
  IF IndexOf(file, ".") = 0 THEN file ELSE SubSeq(file, 1, IndexOf(file, ".") - 1)

\* Array.prototype.reverse
Reverse(seq) == [i \in 1..Len(seq) |-> seq[Len(seq) + 1 - i]]

\* the bindings of the files of a directory listing; the module of a
\* binding is named by the file it is loaded from
getModulesDefinitions(files, specificRoute) ==
  LET kept == SelectSeq(Reverse(files), EndsWithJs)
  IN  [i \in 1..Len(kept) |->
         [identifier |-> Identifier(kept[i]),
          route      |-> parseRoute(specificRoute, kept[i]),
          module     |-> kept[i]]]

Discovery(pc, files, specificRoute) ==
  [pc |-> pc, files |-> files, specificRoute |-> specificRoute, modules |-> <<>>]
NoDiscovery == Discovery("off", <<>>, NoSpecificRoute)

\* the registry of a server whose only module is song_url
DefaultRoutes ==
  << [identifier |-> <<"s", "o", "n", "g", "_", "u", "r", "l">>,
      route      |-> <<"/", "s", "o", "n", "g", "/", "u", "r", "l">>,
      module     |-> <<"s", "o", "n", "g", "_", "u", "r", "l", ".", "j", "s">>] >>

(***************************************************************************)
(* Requests                                                                *)
(***************************************************************************)
(***************************************************************************)
(* The first middleware and the routing of a request to a binding          *)
(***************************************************************************)
\* req.path of the URLs of the model: the URL without its query string
UrlPath(url) ==
  CASE url = "/song/url?id=1" -> <<"/", "s", "o", "n", "g", "/", "u", "r", "l">>
    [] url = "/song/url?id=2" -> <<"/", "s", "o", "n", "g", "/", "u", "r", "l">>
    [] url = "/u"             -> <<"/", "u">>
    [] url = "/u/d"           -> <<"/", "u", "/", "d">>
    [] url = "/ux"            -> <<"/", "u", "x">>
    [] url = "/a.b"           -> <<"/", "a", ".", "b">>
    [] url = "/"              -> <<"/">>

\* String.prototype.includes for one character
Includes(str, c) == \E i \in 1..Len(str) : str[i] = c

NoHeaders == [h \in {} |-> ""]

\* the same headers without the Content-Type
CorsHeaders_NoContentType(origin) ==
  [h \in {"Access-Control-Allow-Credentials", "Access-Control-Allow-Origin",
          "Access-Control-Allow-Headers", "Access-Control-Allow-Methods"} |->
     CASE h = "Access-Control-Allow-Credentials" -> "true"
       [] h = "Access-Control-Allow-Origin" -> IF origin \in {NoField, ""} THEN "*" ELSE origin
       [] h = "Access-Control-Allow-Headers" -> "X-Requested-With,Content-Type"
       [] h = "Access-Control-Allow-Methods" -> "PUT,POST,GET,DELETE,OPTIONS"]

\* res.set({...}) of the first middleware
CorsHeaders(origin) ==
  [h \in {"Access-Control-Allow-Credentials", "Access-Control-Allow-Origin",
          "Access-Control-Allow-Headers", "Access-Control-Allow-Methods",
          "Content-Type"} |->
     CASE h = "Access-Control-Allow-Credentials" -> "true"
       [] h = "Access-Control-Allow-Origin" -> IF origin \in {NoField, ""} THEN "*" ELSE origin
       [] h = "Access-Control-Allow-Headers" -> "X-Requested-With,Content-Type"
       [] h = "Access-Control-Allow-Methods" -> "PUT,POST,GET,DELETE,OPTIONS"
       [] h = "Content-Type" -> "application/json; charset=utf-8"]

\* req.path !== '/' && !req.path.includes('.')
CorsApplies(path) == path # <<"/">> /\ ~Includes(path, ".")

\* app.use(route, handler): the handler is mounted at the path prefix route;
\* it takes the paths that are route or begin with route followed by '/'
\* (routes in lower case that do not end in '/')
MatchesRoute(route, path) ==
  \/ route = <<"/">>
  \/ /\ Len(path) >= Len(route)
     /\ SubSeq(path, 1, Len(route)) = route
     /\ (Len(path) = Len(route) \/ path[Len(route) + 1] = "/")

\* the bindings whose route takes path, in registration order
MatchingBindings(path) ==
  SelectSeq([i \in 1..Len(routes) |-> i],
            LAMBDA i : MatchesRoute(routes[i].route, path))

\* a router in which the binding registered last takes the request
Dispatch_LastMatch(path) ==
  LET m == MatchingBindings(path)
  IN  IF m = <<>> THEN <<>> ELSE <<m[Len(m)]>>

\* route handlers that pass the request on with next()
Dispatch_FallThrough(path) == MatchingBindings(path)

\* the bindings whose handler is invoked for a request that reaches the
\* routes: the router tries them in registration order, and the route
\* handler (req, res) never calls next
Dispatch(path) ==
  LET m == MatchingBindings(path)
  IN  IF m = <<>> THEN <<>> ELSE <<Head(m)>>

IdleReq ==
  [pc |-> "idle", method |-> "GET", url |-> "/song/url?id=1", proto |-> "http",
   fromCache |-> FALSE, calls |-> 0, outcome |-> NoOutcome, resp |-> NoResp,
   arrAt |-> 0, doneAt |-> 0,
   origin |-> NoField, cookieHdr |-> NoField, payload |-> NoField,
   hdrs |-> NoHeaders, ran |-> <<>>]

KeyOf(r) == CacheKey(reqs[r].method, reqs[r].url)

\* the parameter assembly before any request is looked at
EmptyBag == [k \in {} |-> StrVal(<<>>)]
Assembly(pc, header, query, body, files) ==
  [pc |-> pc, header |-> header, cookies |-> EmptyMap,
   query |-> query, body |-> body, files |-> files, bag |-> EmptyBag]
NoAssembly == Assembly("off", <<>>, EmptyBag, EmptyBag, EmptyBag)

(***************************************************************************)
(* The outbound call                                                       *)
(*                                                                         *)
(* An argument is undefined, an object with named properties, or another   *)
(* value, told apart by a number.  IP addresses and property values are    *)
(* sequences of characters.                                                *)
(***************************************************************************)
NoProps == [k \in {} |-> <<>>]
Undefined == [t |-> "undefined", n |-> 0, o |-> NoProps]
Value(n)  == [t |-> "value", n |-> n, o |-> NoProps]
Object(o) == [t |-> "object", n |-> 0, o |-> o]

\* '::ffff:'
MappedPrefix == <<":", ":", "f", "f", "f", "f", ":">>

\* ip = req.ip; if (ip.substr(0, 7) == '::ffff:') ip = ip.substr(7)
NormalizeIp(ip) ==
  IF Len(ip) >= 7 /\ SubSeq(ip, 1, 7) = MappedPrefix
  THEN SubSeq(ip, 8, Len(ip))
  ELSE ip

\* { ip, ...x }: a property ip of x stays
SpreadWithIp_KeepExisting(x, ip) ==
  LET src == IF x.t = "object" THEN x.o ELSE NoProps
  IN  Object([k \in DOMAIN src \cup {"ip"} |->
                IF k \in DOMAIN src THEN src[k] ELSE ip])

\* { ...x, ip } for x undefined or an object
SpreadWithIp(x, ip) ==
  LET src == IF x.t = "object" THEN x.o ELSE NoProps
  IN  Object([k \in DOMAIN src \cup {"ip"} |-> IF k = "ip" THEN ip ELSE src[k]])

\* obj[i] of an array: undefined beyond its length
ArgAt(obj, i) == IF i <= Len(obj) THEN obj[i] ELSE Undefined

\* the arguments request is called with: obj = [...params], obj[3] = {...},
\* request(...obj); a hole of obj is passed as undefined
WrapperArgs(params, ip) ==
  [i \in 1..(IF Len(params) > 4 THEN Len(params) ELSE 4) |->
     IF i = 4 THEN SpreadWithIp(ArgAt(params, 4), NormalizeIp(ip))
     ELSE ArgAt(params, i)]

Outbound(pc, ip, params) == [pc |-> pc, ip |-> ip, params |-> params, sent |-> <<>>]
NoOutbound == Outbound("off", <<>>, <<>>)

Init ==
  /\ now = 0
  /\ cache = [k \in CacheKeys |-> NoEntry]
  /\ reqs = [r \in ReqIds |-> IdleReq]
  /\ nreq = 0
  /\ pa = NoAssembly
  /\ disc = NoDiscovery
  /\ routes = DefaultRoutes
  /\ ob = NoOutbound

\* a request comes in and runs through the middleware chain up to the
\* module call: the cache answers it, or the route handler calls the module
\* and suspends at the await
\* (no file of the public directory has the path of a request of the model)
Receive(limit, in) ==
  /\ nreq < limit
  /\ LET r == nreq + 1
         path == UrlPath(in.url)
         k == CacheKey(in.method, in.url)
         ran == Dispatch(path)
         base == [IdleReq EXCEPT !.method = in.method, !.url = in.url,
                                 !.proto = in.proto, !.origin = in.origin,
                                 !.cookieHdr = in.cookieHdr, !.payload = in.payload,
                                 !.arrAt = now,
                                 !.hdrs = IF CorsApplies(path)
                                          THEN CorsHeaders(in.origin)
                                          ELSE NoHeaders]
         notFound == Response(404, CannotBody, <<>>)
     IN  IF in.method = "OPTIONS"
         THEN \* the first middleware ends the response
              /\ reqs' = [reqs EXCEPT ![r] =
                    [base EXCEPT !.pc = "done", !.doneAt = now,
                                 !.resp = Response(204, AbsentBody, <<>>)]]
              /\ cache' = cache
         ELSE IF CacheHit(k)
         THEN /\ reqs' = [reqs EXCEPT ![r] =
                    [base EXCEPT !.pc = "done", !.fromCache = TRUE,
                                 !.resp = Response(cache[k].status, cache[k].body,
                                                   cache[k].setCookie),
                                 !.doneAt = now]]
              /\ cache' = cache
         ELSE IF ran = <<>>
         THEN \* no binding takes the path
              /\ reqs' = [reqs EXCEPT ![r] =
                    [base EXCEPT !.pc = "done", !.doneAt = now, !.resp = notFound]]
              /\ cache' = CacheAfterEnd(k, notFound, now)
         ELSE /\ reqs' = [reqs EXCEPT ![r] =
                    [base EXCEPT !.pc = "await", !.ran = ran, !.calls = Len(ran)]]
              /\ cache' = cache
  /\ nreq' = nreq + 1
  /\ UNCHANGED <<now, pa, disc, routes, ob>>

\* a request without Origin, Cookie and body
Arrive(limit, id, proto) ==
  Receive(limit, [method |-> id[1], url |-> id[2], proto |-> proto,
                  origin |-> NoField, cookieHdr |-> NoField, payload |-> NoField])

\* the module call of request r settles with o and the route handler
\* runs to its end; the cache sees the end of the response
Settle(r, o) ==
  /\ reqs[r].pc = "await"
  /\ LET res == RouteHandlerResult(o, reqs[r].proto)
     IN  /\ reqs' = [reqs EXCEPT ![r] =
                [@ EXCEPT !.pc = IF res.threw THEN "threw" ELSE "done",
                          !.outcome = o, !.resp = res.resp,
                          !.doneAt = now]]
         /\ cache' = CacheAfterEnd(KeyOf(r), res.resp, now)
  /\ UNCHANGED <<now, nreq, pa, disc, routes, ob>>

\* a minute passes; the expiry timers that are due fire
Tick ==
  /\ now < MaxTime
  /\ now' = now + 1
  /\ cache' = CacheAfterExpiry(now + 1)
  /\ UNCHANGED <<reqs, nreq, pa, disc, routes, ob>>

\* getModulesDefinitions reads the directory and returns the bindings
Discover ==
  /\ disc.pc = "listed"
  /\ disc' = [disc EXCEPT !.pc = "found",
                          !.modules = getModulesDefinitions(disc.files, disc.specificRoute)]
  /\ UNCHANGED <<now, cache, reqs, nreq, pa, routes, ob>>

\* consturctServer registers the bindings it discovered with its override
\* table, in their order
Register ==
  /\ disc.pc = "found"
  /\ disc.specificRoute = special
  /\ disc' = [disc EXCEPT !.pc = "registered"]
  /\ routes' = disc.modules
  /\ UNCHANGED <<now, cache, reqs, nreq, pa, ob>>

\* the module calls the function it was handed: the wrapper hands the
\* arguments, with the client's address, to request
OutboundCall ==
  /\ ob.pc = "ready"
  /\ ob' = [ob EXCEPT !.pc = "sent", !.sent = WrapperArgs(ob.params, ob.ip)]
  /\ UNCHANGED <<now, cache, reqs, nreq, pa, disc, routes>>

\* the cookie middleware sets req.cookies from the Cookie header
ParseCookies ==
  /\ pa.pc = "start"
  /\ pa' = [pa EXCEPT !.pc = "parsed", !.cookies = ParseCookieHeader(pa.header)]
  /\ UNCHANGED <<now, cache, reqs, nreq, disc, routes, ob>>

\* the route handler normalises the cookie of req.query and of req.body in
\* place and assembles the bag it hands to the module
AssembleBag ==
  /\ pa.pc = "parsed"
  /\ LET q == NormalizeCookie(pa.query)
         b == NormalizeCookie(pa.body)
     IN  pa' = [pa EXCEPT !.pc = "assembled", !.query = q, !.body = b,
                          !.bag = AssignAll(pa.cookies, q, b, pa.files)]
  /\ UNCHANGED <<now, cache, reqs, nreq, disc, routes, ob>>

(***************************************************************************)
(* Module outcomes                                                         *)
(***************************************************************************)
BodyA == Obj(Num(200), NoField, "A")
BodyB == Obj(Num(250), "risk", NoField)

\* outcomes used where the cache and the interleaving of requests matter
CacheOutcomes ==
  { Settled("resolve", 200, BodyA, ArrCookie(<<"sid=1">>)),
    Settled("reject", 200, BodyB, ArrCookie(<<>>)),
    Settled("reject", 500, Obj(Num(500), "busy", NoField), ArrCookie(<<>>)),
    Settled("reject", 500, AbsentBody, NoCookie) }

\* outcomes used where the mapping to the response matters
Codes == {NoCode, Num(301), Str(301), Num(400)}
Bodies ==
  {AbsentBody, FalsyBody}
    \cup {Obj(c, m, "D") : c \in Codes, m \in {NoField, "orig"}}
Cookies ==
  { NoCookie, StrCookie("sid=1"), ArrCookie(<<>>),
    ArrCookie(<<"sid=1", "t=2; SameSite=None; Secure">>) }
Outcomes ==
  {SettledNull(ch) : ch \in {"resolve", "reject"}}
    \cup {Settled(ch, st, b, c) : ch \in {"resolve", "reject"},
                                  st \in Statuses \cup {NoStatus},
                                  b \in Bodies, c \in Cookies}

Next ==
  \/ \E id \in Idents : Arrive(MaxReqs, id, "http")
  \/ \E r \in ReqIds, o \in CacheOutcomes : Settle(r, o)
  \/ Tick

Spec == Init /\ [][Next]_vars

NextDispatch ==
  \/ \E p \in Protocols : Arrive(DispatchReqs, <<"GET", "/song/url?id=1">>, p)
  \/ \E r \in ReqIds, o \in Outcomes : Settle(r, o)

SpecDispatch == Init /\ [][NextDispatch]_vars

(***************************************************************************)
(* Inputs of the parameter assembly                                        *)
(***************************************************************************)
ParamKeys == {"cookie", "a"}

\* the objects over ParamKeys whose cookie, when present, is in C and whose
\* a, when present, is in A
Params(C, A) ==
  { [k \in D |-> IF k = "cookie" THEN c ELSE a] :
      D \in SUBSET ParamKeys, c \in C, a \in A }

\* '', 'a=1' and 'a=1; s=9'
Headers ==
  { <<>>, <<"a", "=", "1">>, <<"a", "=", "1", ";", " ", "s", "=", "9">> }

\* ?cookie=a%3D2, ?cookie=b%253D2 (the string b%3D2), ?cookie=x&cookie=y
Queries ==
  Params({ StrVal(<<"a", "=", "2">>), StrVal(<<"b", "%3D", "2">>),
           OtherVal("array", "q") },
         { StrVal(<<"2">>) })

\* a body field cookie that is the string c=3, or an object of a JSON body
\* whose values are not strings ({"cookie": {"a": 1}})
BodyParams ==
  Params({StrVal(<<"c", "=", "3">>), OtherVal("object", "b")}, {StrVal(<<"3">>)})

\* req.files: uploaded files by field name; no upload at all merges nothing
FileParams ==
  Params({OtherVal("file", "f1")}, {OtherVal("file", "f2")})

InitAssemble ==
  /\ now = 0
  /\ cache = [k \in CacheKeys |-> NoEntry]
  /\ reqs = [r \in ReqIds |-> IdleReq]
  /\ nreq = 0
  /\ pa \in { Assembly("start", h, q, b, f) :
                h \in Headers, q \in Queries, b \in BodyParams, f \in FileParams }
  /\ disc = NoDiscovery
  /\ routes = DefaultRoutes
  /\ ob = NoOutbound

NextAssemble ==
  \/ ParseCookies
  \/ AssembleBag

SpecAssemble == InitAssemble /\ [][NextAssemble]_vars

(***************************************************************************)
(* Inputs of the cookie middleware                                         *)
(***************************************************************************)
\* the strings over chars of length n or less
RECURSIVE StringsOf(_, _)
StringsOf(chars, n) ==
  IF n = 0
  THEN {<<>>}
  ELSE LET S == StringsOf(chars, n - 1)
       IN  S \cup {Append(t, c) : t \in {u \in S : Len(u) = n - 1}, c \in chars}

HeaderChars == {"a", "=", ";", " ", "%20"}

\* 'a=1; b=2', 'a=1;b', 'a=1;b=2', 'k%3D=%3B1', 'a=1; a=2', 'a=1;  b=2  '
HeaderExamples ==
  { <<"a", "=", "1", ";", " ", "b", "=", "2">>,
    <<"a", "=", "1", ";", "b">>,
    <<"a", "=", "1", ";", "b", "=", "2">>,
    <<"k", "%3D", "=", "%3B", "1">>,
    <<"a", "=", "1", ";", " ", "a", "=", "2">>,
    <<"a", "=", "1", ";", " ", " ", "b", "=", "2", " ", " ">> }

\* req.headers.cookie || '': an absent header is the empty string
CookieHeaders == StringsOf(HeaderChars, MaxHeaderLen) \cup HeaderExamples

InitCookie ==
  /\ now = 0
  /\ cache = [k \in CacheKeys |-> NoEntry]
  /\ reqs = [r \in ReqIds |-> IdleReq]
  /\ nreq = 0
  /\ pa \in { Assembly("start", h, EmptyBag, EmptyBag, EmptyBag) : h \in CookieHeaders }
  /\ disc = NoDiscovery
  /\ routes = DefaultRoutes
  /\ ob = NoOutbound

NextCookie == ParseCookies

SpecCookie == InitCookie /\ [][NextCookie]_vars

(***************************************************************************)
(* Inputs of the module discovery                                          *)
(***************************************************************************)
\* user.js, user_detail.js, daily_signin.js, a.b.js, x.JS, notes.md, .js
FileNames ==
  { <<"u", "s", "e", "r", ".", "j", "s">>,
    <<"u", "s", "e", "r", "_", "d", "e", "t", "a", "i", "l", ".", "j", "s">>,
    <<"d", "a", "i", "l", "y", "_", "s", "i", "g", "n", "i", "n", ".", "j", "s">>,
    <<"a", ".", "b", ".", "j", "s">>,
    <<"x", ".", "J", "S">>,
    <<"n", "o", "t", "e", "s", ".", "m", "d">>,
    <<".", "j", "s">> }

\* fs.promises.readdir: the names of the entries of a directory, each once,
\* in the order the file system gives them
RECURSIVE Listings(_)
Listings(n) ==
  IF n = 0
  THEN {<<>>}
  ELSE LET L == Listings(n - 1)
       IN  L \cup {Append(l, f) : l \in {m \in L : Len(m) = n - 1}, f \in FileNames}

DistinctEntries(l) == \A i, j \in 1..Len(l) : i # j => l[i] # l[j]

InitDiscover ==
  /\ now = 0
  /\ cache = [k \in CacheKeys |-> NoEntry]
  /\ reqs = [r \in ReqIds |-> IdleReq]
  /\ nreq = 0
  /\ pa = NoAssembly
  /\ disc \in { Discovery("listed", l, sr) :
                  l \in {m \in Listings(MaxFiles) : DistinctEntries(m)},
                  sr \in {special, NoSpecificRoute} }
  /\ routes = <<>>
  /\ ob = NoOutbound

NextDiscover ==
  \/ Discover
  \/ Register

SpecDiscover == InitDiscover /\ [][NextDiscover]_vars

(***************************************************************************)
(* Inputs of the routing: registries a caller hands to consturctServer     *)
(***************************************************************************)
\* '/u' and '/u/d'
RoutePool == { <<"/", "u">>, <<"/", "u", "/", "d">> }

Binding(route) == [identifier |-> <<>>, route |-> route, module |-> <<"m">>]

\* moduleDefs: the lists of n or fewer bindings
RECURSIVE Registries(_)
Registries(n) ==
  IF n = 0
  THEN {<<>>}
  ELSE LET R == Registries(n - 1)
       IN  R \cup {Append(g, Binding(rt)) : g \in {h \in R : Len(h) = n - 1},
                                           rt \in RoutePool}

RouteUrls == {"/u", "/u/d", "/ux"}

RouteOutcomes ==
  { Settled("resolve", 200, BodyA, ArrCookie(<<>>)),
    Settled("reject", 500, Obj(Num(500), "busy", NoField), ArrCookie(<<>>)),
    SettledNull("reject") }

InitRoute ==
  /\ now = 0
  /\ cache = [k \in CacheKeys |-> NoEntry]
  /\ reqs = [r \in ReqIds |-> IdleReq]
  /\ nreq = 0
  /\ pa = NoAssembly
  /\ disc = NoDiscovery
  /\ routes \in Registries(MaxBindings)
  /\ ob = NoOutbound

NextRoute ==
  \/ \E u \in RouteUrls : Arrive(RouteReqs, <<"GET", u>>, "http")
  \/ \E r \in ReqIds, o \in RouteOutcomes : Settle(r, o)

SpecRoute == InitRoute /\ [][NextRoute]_vars

(***************************************************************************)
(* Inputs of the outbound call                                             *)
(***************************************************************************)
\* '::ffff:1.2.3.4', '1.2.3.4', '::1', '::ffff:', '2001::ffff:1'
ClientIps ==
  { <<":", ":", "f", "f", "f", "f", ":", "1", ".", "2", ".", "3", ".", "4">>,
    <<"1", ".", "2", ".", "3", ".", "4">>,
    <<":", ":", "1">>,
    <<":", ":", "f", "f", "f", "f", ":">>,
    <<"2", "0", "0", "1", ":", ":", "f", "f", "f", "f", ":", "1">> }

\* {}, { crypto: 'weapi' }, { ip: '9.9.9.9' }, { crypto: 'weapi', ip: '9.9.9.9' }
OptionObjects ==
  { Object(NoProps),
    Object("crypto" :> <<"w", "e", "a", "p", "i">>),
    Object("ip" :> <<"9", ".", "9", ".", "9", ".", "9">>),
    Object(("crypto" :> <<"w", "e", "a", "p", "i">>) @@ ("ip" :> <<"9", ".", "9", ".", "9", ".", "9">>)) }

\* the argument lists of a module's call: method, url, data, then the
\* options, an object or undefined, then further values
ParamLists ==
  { [i \in 1..n |-> IF i = 4 THEN opt ELSE Value(i)] :
      n \in 0..MaxArgs, opt \in OptionObjects \cup {Undefined} }

InitOutbound ==
  /\ now = 0
  /\ cache = [k \in CacheKeys |-> NoEntry]
  /\ reqs = [r \in ReqIds |-> IdleReq]
  /\ nreq = 0
  /\ pa = NoAssembly
  /\ disc = NoDiscovery
  /\ routes = DefaultRoutes
  /\ ob \in { Outbound("ready", ip, params) : ip \in ClientIps, params \in ParamLists }

NextOutbound == OutboundCall

SpecOutbound == InitOutbound /\ [][NextOutbound]_vars

(***************************************************************************)
(* Inputs of the preflight: a server with the route '/u'                   *)
(***************************************************************************)
PreflightUrls == {"/u", "/u/d", "/a.b", "/"}

\* req.headers.origin: none, or the origin of a page
Origins == {NoField, "https://app.example"}

PreflightOutcomes ==
  { Settled("resolve", 200, BodyA, ArrCookie(<<"sid=1">>)),
    Settled("reject", 500, Obj(Num(500), "busy", NoField), ArrCookie(<<>>)) }

InitPreflight ==
  /\ now = 0
  /\ cache = [k \in CacheKeys |-> NoEntry]
  /\ reqs = [r \in ReqIds |-> IdleReq]
  /\ nreq = 0
  /\ pa = NoAssembly
  /\ disc = NoDiscovery
  /\ routes = <<Binding(<<"/", "u">>)>>
  /\ ob = NoOutbound

NextPreflight ==
  \/ \E u \in PreflightUrls, og \in Origins :
       Receive(PreflightReqs,
               [method |-> "OPTIONS", url |-> u, proto |-> "http", origin |-> og,
                cookieHdr |-> NoField, payload |-> NoField])
  \/ \E u \in {"/u", "/u/d"} : Arrive(PreflightReqs, <<"GET", u>>, "http")
  \/ \E r \in ReqIds, o \in PreflightOutcomes : Settle(r, o)

SpecPreflight == InitPreflight /\ [][NextPreflight]_vars

(***************************************************************************)
(* Inputs of the requests of different callers                             *)
(***************************************************************************)
\* the Cookie header and the body of a request: two accounts, and a body
Callers ==
  { [cookieHdr |-> "MUSIC_U=alice", payload |-> NoField],
    [cookieHdr |-> "MUSIC_U=bob",   payload |-> NoField],
    [cookieHdr |-> "MUSIC_U=alice", payload |-> "br=320"] }

CallerOutcomes ==
  { Settled("resolve", 200, BodyA, ArrCookie(<<"sid=1">>)),
    Settled("resolve", 200, Obj(Num(200), NoField, "B"), ArrCookie(<<"sid=2">>)),
    Settled("reject", 500, Obj(Num(500), "busy", NoField), ArrCookie(<<>>)) }

NextCallers ==
  \/ \E c \in Callers :
       Receive(CredReqs,
               [method |-> "POST", url |-> "/song/url?id=1", proto |-> "http",
                origin |-> NoField, cookieHdr |-> c.cookieHdr, payload |-> c.payload])
  \/ \E r \in ReqIds, o \in CallerOutcomes : Settle(r, o)
  \/ Tick

SpecCallers == Init /\ [][NextCallers]_vars

TypeOK ==
  /\ now \in 0..MaxTime
  /\ nreq \in 0..MaxReqs
  /\ \A r \in ReqIds : reqs[r].pc \in {"idle", "await", "done", "threw"}

(***************************************************************************)
(* Vocabulary of the properties                                            *)
(***************************************************************************)
Arrived(r) == reqs[r].pc # "idle"
InFlight(r) == reqs[r].pc = "await"
Answered(r) == reqs[r].pc = "done"
SameKey(r1, r2) ==
  reqs[r1].method = reqs[r2].method /\ reqs[r1].url = reqs[r2].url

\* r ran its handler and its response was written with status 200
Wrote200(r) ==
  Answered(r) /\ ~reqs[r].fromCache /\ reqs[r].calls > 0 /\ reqs[r].resp.status = 200

\* r ran its handler and its response was written with another status
WroteNon200(r) ==
  Answered(r) /\ ~reqs[r].fromCache /\ reqs[r].calls > 0 /\ reqs[r].resp.status # 200

\* the requests with the key of r, other than r, whose 200 response is in
\* the cache, or may be, at the time r arrives: written no later than the
\* minute of r's arrival and less than two minutes before it
LiveWriters(r) ==
  {s \in ReqIds \ {r} :
     /\ Wrote200(s) /\ SameKey(s, r)
     /\ reqs[s].doneAt <= reqs[r].arrAt
     /\ reqs[r].arrAt < reqs[s].doneAt + 2}

SameResponse(p, q) ==
  p.status = q.status /\ p.body = q.body /\ p.setCookie = q.setCookie

(***************************************************************************)
(* C1: of two requests with the same cache key of which the first was      *)
(* answered with status 200, the second, when it arrives less than two     *)
(* minutes after that response was stored, is answered with the stored     *)
(* status, body and headers and no handler runs for it; when it arrives    *)
(* after the entry's two minutes have elapsed (no response stored for the  *)
(* key is younger than two minutes), the handler runs again.               *)
(* Times are whole minutes, so "after" is "in a later minute".             *)
(***************************************************************************)
C1_CacheHitWithinTTL ==
  \A r1, r2 \in ReqIds :
    (r1 # r2 /\ Wrote200(r1) /\ Arrived(r2) /\ SameKey(r1, r2)
       /\ reqs[r1].doneAt < reqs[r2].arrAt)
    =>
    /\ reqs[r2].arrAt < reqs[r1].doneAt + 2
         => /\ Answered(r2)
            /\ reqs[r2].fromCache
            /\ reqs[r2].calls = 0
            /\ \E s \in LiveWriters(r2) : SameResponse(reqs[r2].resp, reqs[s].resp)
    /\ (reqs[r2].arrAt >= reqs[r1].doneAt + 2 /\ LiveWriters(r2) = {})
         => /\ ~reqs[r2].fromCache
            /\ reqs[r2].calls = 1

C1_Witness ==
  \E r1, r2, r3 \in ReqIds :
    /\ Wrote200(r1) /\ SameKey(r1, r2) /\ SameKey(r1, r3)
    /\ reqs[r2].fromCache /\ reqs[r2].arrAt = reqs[r1].doneAt + 1
    /\ reqs[r2].calls = 0
    /\ Arrived(r3) /\ reqs[r3].arrAt = reqs[r1].doneAt + 2
    /\ LiveWriters(r3) = {} /\ reqs[r3].calls = 1

(***************************************************************************)
(* C2: every entry of the response cache has status 200; a response        *)
(* written with another status is never stored, so that an identical       *)
(* request following it runs the handler again; a response with status 200 *)
(* is stored, from the success path and from the failure path alike.       *)
(***************************************************************************)
C2_EntriesAre200 ==
  \A k \in CacheKeys : cache[k] # NoEntry => cache[k].status = 200

\* a 200 response written by the handler, on either path, is in the cache
\* for its two minutes unless a later 200 response for the key replaced it
C2_Stored200 ==
  \A r \in ReqIds :
    (Wrote200(r) /\ now < reqs[r].doneAt + 2)
    => \E s \in ReqIds :
         /\ Wrote200(s) /\ SameKey(s, r) /\ reqs[s].doneAt >= reqs[r].doneAt
         /\ cache[KeyOf(r)].status = 200
         /\ cache[KeyOf(r)].body = reqs[s].resp.body
         /\ cache[KeyOf(r)].setCookie = reqs[s].resp.setCookie

\* r2 is the identical request that follows the response of r1: it arrives
\* in a later minute than the response, and every other request arrived
\* before the minute of the response or arrives after r2 (requests are
\* numbered as they arrive)
Follows(r1, r2) ==
  /\ r1 # r2 /\ Arrived(r2) /\ SameKey(r1, r2)
  /\ reqs[r1].doneAt < reqs[r2].arrAt
  /\ \A x \in ReqIds \ {r1, r2} :
       Arrived(x) => (reqs[x].arrAt < reqs[r1].doneAt \/ x > r2)

\* the claim as it is stated: the identical request that follows a non-200
\* response runs the handler, whatever else has happened
C2_Original ==
  /\ C2_EntriesAre200
  /\ C2_Stored200
  /\ \A r1, r2 \in ReqIds :
       (WroteNon200(r1) /\ Follows(r1, r2)) => reqs[r2].calls = 1

\* as amended: unless the 200 response of another request with the same
\* key is in the cache when the identical request arrives
C2_Amended ==
  /\ C2_EntriesAre200
  /\ C2_Stored200
  /\ \A r1, r2 \in ReqIds :
       (WroteNon200(r1) /\ Follows(r1, r2)
          /\ \A s \in ReqIds \ {r2} :
               (Wrote200(s) /\ SameKey(s, r2))
               => \/ reqs[s].doneAt + 2 <= reqs[r2].arrAt
                  \/ reqs[s].doneAt > reqs[r2].arrAt)
       => reqs[r2].calls = 1 /\ ~reqs[r2].fromCache

C2_Witness ==
  \E r1, r2, r3 \in ReqIds :
    /\ WroteNon200(r1) /\ reqs[r1].resp.status = 404
    /\ Follows(r1, r2)
    /\ reqs[r2].calls = 1 /\ WroteNon200(r2) /\ reqs[r2].resp.status = 500
    /\ Follows(r2, r3)
    /\ reqs[r3].calls = 1
    /\ Wrote200(r3) /\ reqs[r3].outcome.ch = "reject"
    /\ cache[KeyOf(r3)].status = 200
    /\ cache[KeyOf(r3)].body = reqs[r3].resp.body

(***************************************************************************)
(* C3: two requests with the same cache key that are in flight together    *)
(* are not deduplicated: the handler runs once for each, each is answered  *)
(* with the outcome of its own handler run, and once both have been        *)
(* answered with status 200 the cache entry of the key is the response of  *)
(* the one answered last.                                                  *)
(***************************************************************************)
\* r1 and r2 both ran their handler and r2 arrived while r1 was suspended
Overlap(r1, r2) ==
  /\ r1 < r2 /\ SameKey(r1, r2)
  /\ Arrived(r2) /\ ~reqs[r2].fromCache
  /\ \/ InFlight(r1)
     \/ /\ reqs[r1].pc \in {"done", "threw"} /\ ~reqs[r1].fromCache
        /\ reqs[r2].arrAt < reqs[r1].doneAt

\* the response of r is the one its own outcome maps to
OwnOutcome(r) ==
  LET o == reqs[r].outcome
      p == reqs[r].resp
  IN  IF o.ch = "reject" /\ o.body.kind # "obj"
      THEN p.status = 404 /\ p.body.code = Num(404)
      ELSE /\ p.status = o.status
           /\ p.body.code = o.body.code /\ p.body.data = o.body.data

C3_NoDeduplication ==
  \A r1, r2 \in ReqIds :
    Overlap(r1, r2) =>
      /\ reqs[r1].calls = 1 /\ reqs[r2].calls = 1
      /\ Answered(r1) => OwnOutcome(r1)
      /\ Answered(r2) => OwnOutcome(r2)
      /\ \A last \in {r1, r2} :
           LET first == IF last = r1 THEN r2 ELSE r1
           IN  (/\ Wrote200(r1) /\ Wrote200(r2)
                /\ reqs[first].doneAt < reqs[last].doneAt
                /\ now < reqs[last].doneAt + 2
                /\ \A s \in ReqIds \ {r1, r2} :
                     (Wrote200(s) /\ SameKey(s, last))
                     => reqs[s].doneAt < reqs[last].doneAt)
               => /\ cache[KeyOf(last)].status = 200
                  /\ cache[KeyOf(last)].body = reqs[last].resp.body
                  /\ cache[KeyOf(last)].setCookie = reqs[last].resp.setCookie

C3_Witness ==
  \E r1, r2 \in ReqIds :
    /\ Overlap(r1, r2) /\ Wrote200(r1) /\ Wrote200(r2)
    /\ reqs[r2].doneAt < reqs[r1].doneAt
    /\ reqs[r1].resp.body # reqs[r2].resp.body
    /\ cache[KeyOf(r1)].body = reqs[r1].resp.body
    /\ cache[KeyOf(r1)].body # reqs[r2].resp.body

(***************************************************************************)
(* Vocabulary of the properties about the route handler                    *)
(***************************************************************************)
\* the module call of r has settled and the route handler has run to its
\* end, by sending a response or by an exception
HandlerRan(r) ==
  reqs[r].pc \in {"done", "threw"} /\ ~reqs[r].fromCache /\ reqs[r].calls > 0
Resolved(r) == HandlerRan(r) /\ reqs[r].outcome.ch = "resolve"
Rejected(r) == HandlerRan(r) /\ reqs[r].outcome.ch = "reject"

\* the module rejected with an object (not null, not undefined)
RejectedFailure(r) == Rejected(r) /\ ~reqs[r].outcome.isNull
TruthyBody(r) == reqs[r].outcome.body.kind = "obj"

(***************************************************************************)
(* C4: whatever the module call settles with, resolved or rejected,        *)
(* including a rejection with null or undefined or with an object without  *)
(* status, body or cookie, one response is written for the request and no  *)
(* exception leaves the route handler.                                     *)
(***************************************************************************)
C4_AlwaysResponds ==
  \A r \in ReqIds :
    HandlerRan(r) => reqs[r].pc = "done" /\ reqs[r].resp.written

(***************************************************************************)
(* C5: a rejection with a failure (an object) whose body is absent or      *)
(* falsy is answered with status 404 and the body {code: 404, data: null,  *)
(* msg: 'Not Found'}, whatever the status of the failure; neither the      *)
(* failure's status nor its cookie is written.                             *)
(***************************************************************************)
C5_MissingBodyIs404 ==
  \A r \in ReqIds :
    (RejectedFailure(r) /\ ~TruthyBody(r))
    => /\ Answered(r)
       /\ reqs[r].resp.written
       /\ reqs[r].resp.status = 404
       /\ reqs[r].resp.body.kind = "obj"
       /\ reqs[r].resp.body.code = Num(404)
       /\ reqs[r].resp.body.data = JsNull
       /\ reqs[r].resp.body.msg = "Not Found"
       /\ reqs[r].resp.setCookie = <<>>

C5_Witness ==
  \E r \in ReqIds :
    /\ RejectedFailure(r) /\ reqs[r].outcome.body = FalsyBody
    /\ reqs[r].outcome.status = 500
    /\ reqs[r].outcome.cookie = StrCookie("sid=1")
    /\ reqs[r].resp.status = 404 /\ reqs[r].resp.setCookie = <<>>

(***************************************************************************)
(* C6: a rejection whose body.code is 301, as a number or as the string    *)
(* '301', is answered with the failure's status and with its body, where   *)
(* msg is replaced by the login-required message and code and the other    *)
(* fields are unchanged; with a truthy body and another code the body is   *)
(* passed through with msg unchanged.                                      *)
(***************************************************************************)
C6_LoginRequired ==
  \A r \in ReqIds :
    (RejectedFailure(r) /\ TruthyBody(r) /\ Answered(r))
    => LET o == reqs[r].outcome
           p == reqs[r].resp
       IN  /\ p.status = o.status
           /\ p.body.kind = "obj"
           /\ p.body.code = o.body.code
           /\ p.body.data = o.body.data
           /\ p.body.msg = IF o.body.code \in {Num(301), Str(301)}
                           THEN "login required"
                           ELSE o.body.msg

C6_Witness ==
  \E r \in ReqIds :
    /\ RejectedFailure(r) /\ Answered(r)
    /\ reqs[r].outcome.body = Obj(Num(301), "orig", "D")
    /\ reqs[r].outcome.status = 500
    /\ reqs[r].resp.status = 500
    /\ reqs[r].resp.body = Obj(Num(301), LoginMsg, "D")

C8_SuccessResponse ==
  \A r \in ReqIds :
    (Resolved(r) /\ ~reqs[r].outcome.isNull /\ reqs[r].outcome.status # NoStatus)
    => LET o == reqs[r].outcome
           p == reqs[r].resp
       IN  /\ Answered(r)
           /\ p.status = o.status
           /\ p.body = o.body
           /\ IF o.cookie.t = "arr" /\ o.cookie.v # <<>>
              THEN /\ Len(p.setCookie) = Len(o.cookie.v)
                   /\ \A i \in 1..Len(o.cookie.v) :
                        p.setCookie[i] =
                          IF reqs[r].proto = "https"
                          THEN o.cookie.v[i] \o "; SameSite=None; Secure"
                          ELSE o.cookie.v[i]
              ELSE p.setCookie = <<>>

C8_Witness ==
  \E r \in ReqIds :
    /\ Resolved(r) /\ Answered(r) /\ reqs[r].proto = "https"
    /\ reqs[r].outcome.cookie.v = <<"sid=1", "t=2; SameSite=None; Secure">>
    /\ reqs[r].resp.setCookie =
         << "sid=1; SameSite=None; Secure",
            "t=2; SameSite=None; Secure; SameSite=None; Secure" >>

(***************************************************************************)
(* C9: after a rejection with a truthy body, the response has the          *)
(* failure's status and body, and its Set-Cookie headers are the failure's *)
(* cookie strings without any suffix, also over https; a failure without   *)
(* cookie adds no Set-Cookie header.                                       *)
(***************************************************************************)
C9_FailureCookies ==
  \A r \in ReqIds :
    (RejectedFailure(r) /\ TruthyBody(r) /\ Answered(r))
    => LET o == reqs[r].outcome
           p == reqs[r].resp
       IN  /\ p.status = o.status
           /\ p.body.code = o.body.code /\ p.body.data = o.body.data
           /\ p.setCookie = IF o.cookie.t = "absent" THEN <<>> ELSE o.cookie.v

(***************************************************************************)
(* C10: the bag handed to the module has the keys `cookie` plus those of   *)
(* query, body and files, and the value of each key is the one of the      *)
(* highest source that has the key, in the order {cookie: header cookies}  *)
(* < query < body < files; a `cookie` of query or body replaces the map of *)
(* the header cookies as a whole.                                          *)
(***************************************************************************)
C10_MergePrecedence ==
  pa.pc = "assembled" =>
    /\ DOMAIN pa.bag =
         {"cookie"} \cup DOMAIN pa.query \cup DOMAIN pa.body \cup DOMAIN pa.files
    /\ \A k \in DOMAIN pa.bag :
         pa.bag[k] = IF k \in DOMAIN pa.files THEN pa.files[k]
                     ELSE IF k \in DOMAIN pa.body THEN pa.body[k]
                     ELSE IF k \in DOMAIN pa.query THEN pa.query[k]
                     ELSE [t |-> "map", s |-> <<>>, m |-> pa.cookies]

C10_Witness ==
  /\ pa.pc = "assembled"
  /\ pa.cookies = (<<"a">> :> <<"1">>)
  /\ DOMAIN pa.query = {"cookie", "a"}
  /\ DOMAIN pa.body = {"a"}
  /\ DOMAIN pa.files = {"a"}
  /\ pa.bag["a"] = OtherVal("file", "f2")
  /\ pa.bag["cookie"].t = "map"
  /\ pa.bag["cookie"].m = (<<"b">> :> <<"2">>)

(***************************************************************************)
(* C11: whatever the types of the `cookie` fields of query, body and files *)
(* (a string, the array of a repeated query key, an object of a JSON body  *)
(* that is not a map of strings, an uploaded file), the `cookie` of the    *)
(* assembled bag is a cookie map.                                          *)
(***************************************************************************)
C11_CookieIsMap ==
  pa.pc = "assembled" => pa.bag["cookie"].t = "map"

(***************************************************************************)
(* Vocabulary of the cookie properties                                     *)
(***************************************************************************)
\* the position of the first '=' of fragment f, counted from 1; 0 if none
FirstEq(f) ==
  IF \E i \in 1..Len(f) : f[i] = "="
  THEN CHOOSE i \in 1..Len(f) : f[i] = "=" /\ \A j \in 1..(i - 1) : f[j] # "="
  ELSE 0

\* the first '=' of f is at index 1 or more (counted from 0) and is not the
\* last character of f
Qualifies(f) == FirstEq(f) >= 2 /\ FirstEq(f) # Len(f)

FragKey(f) == Trim(Decode(SubSeq(f, 1, FirstEq(f) - 1)))
FragVal(f) == Trim(Decode(SubSeq(f, FirstEq(f) + 1, Len(f))))

Contains(s, c) == \E i \in 1..Len(s) : s[i] = c

(***************************************************************************)
(* C12: of the fragments of a raw Cookie header exactly those whose first  *)
(* '=' is at index 1 or more and is not their last character are stored,   *)
(* each under the decoded, trimmed text before that '=' with the decoded,  *)
(* trimmed text after it as value (of two fragments with one name the      *)
(* later is the one that stays); every other fragment is dropped and       *)
(* changes nothing for the others; no header gives the empty map.          *)
(***************************************************************************)
C12_StoredFragments ==
  pa.pc = "parsed" =>
    LET frags == Split(pa.header)
        Q == {i \in 1..Len(frags) : Qualifies(frags[i])}
    IN  /\ DOMAIN pa.cookies = {FragKey(frags[i]) : i \in Q}
        /\ \A i \in Q :
             (\A j \in Q : j > i => FragKey(frags[j]) # FragKey(frags[i]))
             => pa.cookies[FragKey(frags[i])] = FragVal(frags[i])
        /\ pa.header = <<>> => pa.cookies = EmptyMap

\* 'a; a=a': the fragment without '=' is dropped, the other is stored
C12_Witness ==
  /\ pa.pc = "parsed"
  /\ LET frags == Split(pa.header)
     IN  /\ Len(frags) = 2
         /\ ~Qualifies(frags[1]) /\ frags[1] # <<>>
         /\ Qualifies(frags[2])
  /\ pa.cookies = (<<"a">> :> <<"a">>)

(***************************************************************************)
(* C13: fragments are delimited by ';' followed by zero or more spaces:    *)
(* 'a=1; b=2' gives {a: '1', b: '2'}, 'a=1;b' gives {a: '1'}, and no       *)
(* stored value contains a ';' of the raw header.                          *)
(***************************************************************************)
C13_SemicolonDelimits ==
  pa.pc = "parsed" =>
    /\ pa.header = <<"a", "=", "1", ";", " ", "b", "=", "2">>
         => pa.cookies = (<<"a">> :> <<"1">>) @@ (<<"b">> :> <<"2">>)
    /\ pa.header = <<"a", "=", "1", ";", "b">>
         => pa.cookies = (<<"a">> :> <<"1">>)
    /\ ~Contains(pa.header, "%3B")
         => \A k \in DOMAIN pa.cookies : ~Contains(pa.cookies[k], ";")

(***************************************************************************)
(* Vocabulary of the registry properties                                   *)
(***************************************************************************)
\* the name ends in '.js'
IsJsName(f) ==
  Len(f) >= 3 /\ f[Len(f) - 2] = "." /\ f[Len(f) - 1] = "j" /\ f[Len(f)] = "s"

\* route is '/' followed by the name f without its trailing '.js', every
\* underscore replaced by '/'
DefaultRouteOf(route, f) ==
  /\ Len(route) = Len(f) - 2
  /\ route[1] = "/"
  /\ \A i \in 1..(Len(f) - 3) : route[i + 1] = IF f[i] = "_" THEN "/" ELSE f[i]

\* id is the text of f before its first dot
TextBeforeFirstDot(id, f) ==
  /\ Len(id) <= Len(f)
  /\ \A i \in 1..Len(id) : id[i] = f[i] /\ id[i] # "."
  /\ Len(id) < Len(f) => f[Len(id) + 1] = "."

(***************************************************************************)
(* C14: getModulesDefinitions returns exactly one binding for each entry   *)
(* of the directory whose name ends in '.js', in the reverse of the order  *)
(* of the listing; the route of a binding is the value of the override     *)
(* table when the file name is a key of it, and otherwise '/' followed by  *)
(* the file name without its trailing '.js', every underscore replaced by  *)
(* '/'; its identifier is the text of the file name before the first dot.  *)
(***************************************************************************)
C14_Discovery ==
  disc.pc \in {"found", "registered"} =>
    LET js == SelectSeq(disc.files, IsJsName)
        n  == Len(js)
    IN  /\ Len(disc.modules) = n
        /\ \A k \in 1..n :
             LET f == js[n + 1 - k]
                 b == disc.modules[k]
             IN  /\ b.module = f
                 /\ IF f \in DOMAIN disc.specificRoute
                    THEN b.route = disc.specificRoute[f]
                    ELSE DefaultRouteOf(b.route, f)
                 /\ TextBeforeFirstDot(b.identifier, f)

\* a listing of user_detail.js, notes.md and daily_signin.js, read with the
\* override table: two bindings, daily_signin first
C14_Witness ==
  /\ disc.pc = "found"
  /\ disc.specificRoute = special
  /\ disc.files = << <<"u", "s", "e", "r", "_", "d", "e", "t", "a", "i", "l", ".", "j", "s">>,
                     <<"n", "o", "t", "e", "s", ".", "m", "d">>,
                     <<"d", "a", "i", "l", "y", "_", "s", "i", "g", "n", "i", "n", ".", "j", "s">> >>
  /\ Len(disc.modules) = 2
  /\ disc.modules[1].route = <<"/", "d", "a", "i", "l", "y", "_", "s", "i", "g", "n", "i", "n">>
  /\ disc.modules[2].route = <<"/", "u", "s", "e", "r", "/", "d", "e", "t", "a", "i", "l">>
  /\ disc.modules[2].identifier = <<"u", "s", "e", "r", "_", "d", "e", "t", "a", "i", "l">>

(***************************************************************************)
(* Vocabulary of the routing properties                                    *)
(***************************************************************************)
\* a handler was invoked for request r
Invoked(r) == Arrived(r) /\ reqs[r].ran # <<>>

\* the binding whose handler serves request r
Serving(r) == reqs[r].ran[1]

SameRoute(i, j) == routes[i].route = routes[j].route

(***************************************************************************)
(* C15: when two bindings of the registry have the same route, the binding *)
(* registered last is the one that serves the requests to that route: no   *)
(* request is served by a binding after which one with the same route was  *)
(* registered.                                                             *)
(***************************************************************************)
C15_Original ==
  \A r \in ReqIds :
    Invoked(r) =>
      \A j \in 1..Len(routes) : SameRoute(j, Serving(r)) => j <= Serving(r)

(***************************************************************************)
(* C15 as amended: the routes of a registry need not differ; when two      *)
(* bindings have the same route, the binding registered first is the one   *)
(* that serves the requests to that route, and the handler of the later    *)
(* one is not invoked.                                                     *)
(***************************************************************************)
C15_Amended ==
  \A r \in ReqIds :
    Invoked(r) =>
      /\ \A j \in 1..Len(routes) : SameRoute(j, Serving(r)) => j >= Serving(r)
      /\ \A i, j \in 1..Len(routes) :
           (i < j /\ SameRoute(i, j)) => \A n \in 1..Len(reqs[r].ran) : reqs[r].ran[n] # j

\* two bindings with the route '/u'; a request to '/u' was answered by the
\* handler of the first
C15_Witness ==
  /\ Len(routes) = 2 /\ SameRoute(1, 2)
  /\ \E r \in ReqIds :
       /\ Answered(r) /\ reqs[r].url = "/u" /\ ~reqs[r].fromCache
       /\ reqs[r].ran = <<1>>

(***************************************************************************)
(* Vocabulary of the outbound-call property                                *)
(***************************************************************************)
\* the i-th positional argument of a call: undefined when there is none
Positional(args, i) == IF i \in DOMAIN args THEN args[i] ELSE Undefined

\* the properties of an argument: none for an argument that is absent
PropsOf(x) == IF x.t = "object" THEN x.o ELSE NoProps

\* s is p followed by rest
IsPrefixed(s, p, rest) == s = p \o rest

HasMappedPrefix(s) ==
  Len(s) >= Len(MappedPrefix)
    /\ \A i \in 1..Len(MappedPrefix) : s[i] = MappedPrefix[i]

(***************************************************************************)
(* C16: a call through the wrapper reaches the HTTP client with its first  *)
(* three positional arguments and every argument after the fourth          *)
(* unchanged; the fourth argument is an object with the properties of the  *)
(* handler's fourth argument (none if that is absent) and with `ip` set to *)
(* the client's address, a leading '::ffff:' stripped and any other        *)
(* address as it is; an `ip` the handler passed is overwritten.            *)
(***************************************************************************)
C16_OutboundArgs ==
  ob.pc = "sent" =>
    /\ \A i \in 1..3 : Positional(ob.sent, i) = Positional(ob.params, i)
    /\ \A i \in 5..Len(ob.params) : i \in DOMAIN ob.sent /\ ob.sent[i] = ob.params[i]
    /\ \A i \in DOMAIN ob.sent : i <= 4 \/ i <= Len(ob.params)
    /\ 4 \in DOMAIN ob.sent
    /\ LET given == PropsOf(Positional(ob.params, 4))
           opts  == ob.sent[4]
       IN  /\ opts.t = "object"
           /\ DOMAIN opts.o = DOMAIN given \cup {"ip"}
           /\ \A k \in DOMAIN given \ {"ip"} : opts.o[k] = given[k]
           /\ IF HasMappedPrefix(ob.ip)
              THEN IsPrefixed(ob.ip, MappedPrefix, opts.o["ip"])
              ELSE opts.o["ip"] = ob.ip

\* five arguments, the fourth { crypto: 'weapi', ip: '9.9.9.9' }, from the
\* client ::ffff:1.2.3.4: the client receives ip '1.2.3.4'
C16_Witness ==
  /\ ob.pc = "sent"
  /\ Len(ob.params) = 5
  /\ ob.params[4] = Object(("crypto" :> <<"w", "e", "a", "p", "i">>) @@ ("ip" :> <<"9", ".", "9", ".", "9", ".", "9">>))
  /\ ob.ip = <<":", ":", "f", "f", "f", "f", ":", "1", ".", "2", ".", "3", ".", "4">>
  /\ ob.sent[4] = Object(("crypto" :> <<"w", "e", "a", "p", "i">>) @@ ("ip" :> <<"1", ".", "2", ".", "3", ".", "4">>))
  /\ ob.sent[5] = Value(5)

(***************************************************************************)
(* Vocabulary of the preflight property                                    *)
(***************************************************************************)
\* r is an OPTIONS request to a path that is not '/' and has no '.'
Preflight(r) ==
  /\ Arrived(r) /\ reqs[r].method = "OPTIONS"
  /\ LET path == UrlPath(reqs[r].url)
     IN  path # <<"/">> /\ \A i \in 1..Len(path) : path[i] # "."

AllowHeaders ==
  {"Access-Control-Allow-Credentials", "Access-Control-Allow-Origin",
   "Access-Control-Allow-Headers", "Access-Control-Allow-Methods"}

(***************************************************************************)
(* C17: an OPTIONS request to a path that is not the root and contains no  *)
(* '.' is answered 204 with the four Access-Control-Allow-* headers and    *)
(* the Content-Type 'application/json; charset=utf-8'; it reaches neither  *)
(* the cache nor a handler: it is not answered from the cache, no handler  *)
(* is invoked for it, and no cache entry exists for it at any time.        *)
(***************************************************************************)
C17_Preflight ==
  \A r \in ReqIds :
    Preflight(r) =>
      /\ Answered(r)
      /\ reqs[r].resp.written /\ reqs[r].resp.status = 204
      /\ AllowHeaders \subseteq DOMAIN reqs[r].hdrs
      /\ "Content-Type" \in DOMAIN reqs[r].hdrs
      /\ reqs[r].hdrs["Content-Type"] = "application/json; charset=utf-8"
      /\ ~reqs[r].fromCache
      /\ reqs[r].calls = 0 /\ reqs[r].ran = <<>>
      /\ reqs[r].outcome = NoOutcome
      /\ cache[KeyOf(r)] = NoEntry

\* GET /u/d was answered 200 and is in the cache; the OPTIONS request to
\* /u/d that followed was answered 204 with the origin of the page allowed
C17_Witness ==
  \E r1, r2 \in ReqIds :
    /\ r1 < r2
    /\ Wrote200(r1) /\ reqs[r1].url = "/u/d" /\ cache[KeyOf(r1)] # NoEntry
    /\ Preflight(r2) /\ reqs[r2].url = "/u/d"
    /\ reqs[r2].resp.status = 204
    /\ reqs[r2].hdrs["Access-Control-Allow-Origin"] = "https://app.example"

(***************************************************************************)
(* C18: for each inbound request the handler of at most one binding is     *)
(* invoked, and at most once: there is no retry and no fall-through to a   *)
(* second binding, whatever the outcome, also when several routes take the *)
(* path ('/u' takes '/u/d' as well); the handler that runs is that of the  *)
(* first binding, in registration order, whose route takes the path.       *)
(***************************************************************************)
C18_AtMostOneHandler ==
  \A r \in ReqIds :
    Arrived(r) =>
      /\ Len(reqs[r].ran) <= 1
      /\ reqs[r].calls = Len(reqs[r].ran)
      /\ reqs[r].fromCache => reqs[r].ran = <<>>
      /\ Invoked(r) =>
           LET path == UrlPath(reqs[r].url)
           IN  /\ MatchesRoute(routes[Serving(r)].route, path)
               /\ \A j \in 1..(Serving(r) - 1) : ~MatchesRoute(routes[j].route, path)

\* '/u' registered before '/u/d': a request to '/u/d' whose module rejected
\* with null ran the handler of '/u' only
C18_Witness ==
  /\ Len(routes) = 2
  /\ routes[1].route = <<"/", "u">>
  /\ routes[2].route = <<"/", "u", "/", "d">>
  /\ \E r \in ReqIds :
       /\ reqs[r].url = "/u/d" /\ reqs[r].pc = "threw"
       /\ reqs[r].ran = <<1>> /\ reqs[r].calls = 1

(***************************************************************************)
(* Vocabulary of the caller property                                       *)
(***************************************************************************)
\* r1 and r2 differ in their Cookie header or in their body
OtherCaller(r1, r2) ==
  reqs[r1].cookieHdr # reqs[r2].cookieHdr \/ reqs[r1].payload # reqs[r2].payload

(***************************************************************************)
(* C19: the cache lookup looks at method, path and query only: a request   *)
(* that has the method, path and query of a request answered 200 and       *)
(* arrives within the two minutes of the entry is answered with a stored   *)
(* response (status, body, Set-Cookie) of such a request and its handler   *)
(* is not invoked, although its body or its Cookie header is another.      *)
(***************************************************************************)
C19_KeyIgnoresCaller ==
  \A r1, r2 \in ReqIds :
    (/\ r1 # r2 /\ Wrote200(r1) /\ Arrived(r2) /\ SameKey(r1, r2)
     /\ OtherCaller(r1, r2)
     /\ reqs[r1].doneAt < reqs[r2].arrAt
     /\ reqs[r2].arrAt < reqs[r1].doneAt + 2)
    => /\ Answered(r2) /\ reqs[r2].fromCache
       /\ reqs[r2].calls = 0 /\ reqs[r2].ran = <<>>
       /\ reqs[r2].outcome = NoOutcome
       /\ \E s \in LiveWriters(r2) : SameResponse(reqs[r2].resp, reqs[s].resp)

\* the response to alice, with its Set-Cookie, is what bob is answered with
\* a minute later
C19_Witness ==
  \E r1, r2 \in ReqIds :
    /\ Wrote200(r1) /\ SameKey(r1, r2)
    /\ reqs[r1].cookieHdr = "MUSIC_U=alice" /\ reqs[r2].cookieHdr = "MUSIC_U=bob"
    /\ reqs[r2].arrAt = reqs[r1].doneAt + 1
    /\ reqs[r2].fromCache /\ reqs[r2].calls = 0
    /\ reqs[r2].resp.setCookie = <<"sid=1">>
    /\ SameResponse(reqs[r2].resp, reqs[r1].resp)
=============================================================================
